---- MODULE Spec2Model ----
(***************************************************************************)
(* Blue Marble template diff and progress engine.                          *)
(*                                                                         *)
(*   src/src/Pixel.js           Pixel, TileProgress, TileProgressManager   *)
(*   src/src/TemplateArray.js   TemplateArray                              *)
(*   src/src/templateManager.js TemplateManager                            *)
(*                                                                         *)
(* JavaScript strings are sequences of one-character strings, objects are  *)
(* functions over their own keys, Maps and key-ordered objects are         *)
(* sequences of entries in insertion order, ImageData buffers are flat     *)
(* sequences of bytes (four per pixel).                                    *)
(***************************************************************************)
EXTENDS Integers, Sequences, FiniteSets, TLC

\* ------------------------------------------------------------------------
\* Strings
\* ------------------------------------------------------------------------

Digits == <<"0", "1", "2", "3", "4", "5", "6", "7", "8", "9">>

\* Number.prototype.toString(): the decimal digits of a natural number.
RECURSIVE ToDigits(_)
ToDigits(n) ==
    IF n < 10 THEN <<Digits[n + 1]>>
    ELSE ToDigits(n \div 10) \o <<Digits[(n % 10) + 1]>>

\* String.prototype.padStart(len, ch): never truncates.
RECURSIVE PadStart(_, _, _)
PadStart(s, len, ch) ==
    IF Len(s) >= len THEN s ELSE PadStart(<<ch>> \o s, len, ch)

\* String.prototype.startsWith.
StartsWith(s, p) ==
    /\ Len(p) <= Len(s)
    /\ SubSeq(s, 1, Len(p)) = p

\* String.prototype.split(sep) for a one-character separator.
RECURSIVE SplitFrom(_, _, _, _)
SplitFrom(s, sep, i, cur) ==
    IF i > Len(s) THEN <<cur>>
    ELSE IF s[i] = sep THEN <<cur>> \o SplitFrom(s, sep, i + 1, <<>>)
    ELSE SplitFrom(s, sep, i + 1, Append(cur, s[i]))

SplitOn(s, sep) == SplitFrom(s, sep, 1, <<>>)

\* split(',')
Split(s) == SplitOn(s, ",")

\* Array.prototype.join(',').
RECURSIVE Join(_)
Join(parts) ==
    IF Len(parts) = 0 THEN <<>>
    ELSE IF Len(parts) = 1 THEN parts[1]
    ELSE parts[1] \o <<",">> \o Join(Tail(parts))

DigitValue(c) == CHOOSE d \in 0..9 : Digits[d + 1] = c

\* Number(string) for a string of decimal digits ("" is 0).
RECURSIVE NumberFrom(_, _, _)
NumberFrom(s, i, acc) ==
    IF i > Len(s) THEN acc
    ELSE NumberFrom(s, i + 1, acc * 10 + DigitValue(s[i]))

Number(s) == NumberFrom(s, 1, 0)

\* ------------------------------------------------------------------------
\* Objects: a function over the object's own keys
\* ------------------------------------------------------------------------

EmptyObject == [k \in {} |-> 0]

HasKey(obj, k) == k \in DOMAIN obj

\* obj[k] || 0
GetOrZero(obj, k) == IF HasKey(obj, k) THEN obj[k] ELSE 0

\* obj[k] = v
Put(obj, k, v) == [q \in (DOMAIN obj) \cup {k} |-> IF q = k THEN v ELSE obj[q]]

\* ------------------------------------------------------------------------
\* Pixel (src/src/Pixel.js)
\* ------------------------------------------------------------------------

PaintedAlpha == 64

Pixel(r, g, b, a) == [red |-> r, green |-> g, blue |-> b, alpha |-> a]

isPainted(p) == p.alpha >= PaintedAlpha

isUnpainted(p) == p.alpha < PaintedAlpha

\* Pixel.getFromData(data, index): index is the 0-based offset of the red
\* byte; sequences are 1-based.
getFromData(data, index) ==
    Pixel(data[index + 1], data[index + 2], data[index + 3], data[index + 4])

\* `${red},${green},${blue}`
getColorKey(p) ==
    ToDigits(p.red) \o <<",">> \o ToDigits(p.green) \o <<",">> \o ToDigits(p.blue)

equalsRGB(p, q) ==
    /\ p.red = q.red
    /\ p.green = q.green
    /\ p.blue = q.blue

\* ------------------------------------------------------------------------
\* TileProgress and TileProgressManager (src/src/Pixel.js)
\* ------------------------------------------------------------------------

\* new TileProgress(parameters)
TileProgress(total, painted, wrong, paintedColors, wrongColors, positions) ==
    [ totalPixelCount         |-> total,
      paintedPixelCount       |-> painted,
      wrongPixelCount         |-> wrong,
      paintedPixelColorCounts |-> paintedColors,
      wrongPixelColorCounts   |-> wrongColors,
      wrongPixelPositions     |-> positions ]

\* The Map's entries in insertion order.
MapKeys(m) == { m[i].key : i \in 1..Len(m) }

MapIndex(m, k) == CHOOSE i \in 1..Len(m) : m[i].key = k

\* Map.prototype.has
MapHas(m, k) == k \in MapKeys(m)

\* Map.prototype.get (only used on keys that are present)
MapGet(m, k) == m[MapIndex(m, k)].value

\* Map.prototype.set, with a bug: the entry is always appended.
MapSetAppending(m, k, v) == Append(m, [key |-> k, value |-> v])

\* Map.prototype.set, with a bug: the other entries are dropped.
MapSetAlone(m, k, v) == << [key |-> k, value |-> v] >>

\* Map.prototype.set, with a bug: an existing key keeps its value.
MapSetKeepingFirst(m, k, v) ==
    IF MapHas(m, k) THEN m ELSE Append(m, [key |-> k, value |-> v])

\* Map.prototype.set: an existing key keeps its place and gets the new
\* value, a new key is appended.
MapSet(m, k, v) ==
    IF MapHas(m, k)
    THEN [m EXCEPT ![MapIndex(m, k)] = [key |-> k, value |-> v]]
    ELSE Append(m, [key |-> k, value |-> v])

\* TileProgressManager.computeTotalProgress: the loop over
\* this.tileProgress.values(), with the accumulators as parameters.
RECURSIVE TotalProgressFrom(_, _, _)
TotalProgressFrom(m, i, acc) ==
    IF i > Len(m) THEN acc
    ELSE LET progress == m[i].value IN
         TotalProgressFrom(m, i + 1,
            [ totalPixelCount     |-> acc.totalPixelCount + progress.totalPixelCount,
              paintedPixelCount   |-> acc.paintedPixelCount + progress.paintedPixelCount,
              wrongPixelCount     |-> acc.wrongPixelCount + progress.wrongPixelCount,
              wrongPixelPositions |-> acc.wrongPixelPositions \o progress.wrongPixelPositions ])

\* computeTotalProgress with a bug: a tile's positions are put in front.
RECURSIVE TotalProgressPrepending(_, _, _)
TotalProgressPrepending(m, i, acc) ==
    IF i > Len(m) THEN acc
    ELSE LET progress == m[i].value IN
         TotalProgressPrepending(m, i + 1,
            [ totalPixelCount     |-> acc.totalPixelCount + progress.totalPixelCount,
              paintedPixelCount   |-> acc.paintedPixelCount + progress.paintedPixelCount,
              wrongPixelCount     |-> acc.wrongPixelCount + progress.wrongPixelCount,
              wrongPixelPositions |-> progress.wrongPixelPositions \o acc.wrongPixelPositions ])

computeTotalProgressPrepending(m) ==
    TotalProgressPrepending(m, 1,
        [ totalPixelCount |-> 0, paintedPixelCount |-> 0,
          wrongPixelCount |-> 0, wrongPixelPositions |-> <<>> ])

computeTotalProgress(m) ==
    TotalProgressFrom(m, 1,
        [ totalPixelCount |-> 0, paintedPixelCount |-> 0,
          wrongPixelCount |-> 0, wrongPixelPositions |-> <<>> ])

\* The inner loops of computeTotalColorsProgress: add one object's entries
\* to an aggregate. Object.entries order does not change a sum, so the
\* keys are taken in any order.
RECURSIVE AddCounts(_, _, _)
AddCounts(agg, counts, keys) ==
    IF keys = {} THEN agg
    ELSE LET color == CHOOSE c \in keys : TRUE
             zeroed == IF GetOrZero(agg, color) = 0 THEN Put(agg, color, 0) ELSE agg
         IN AddCounts(Put(zeroed, color, zeroed[color] + counts[color]),
                      counts, keys \ {color})

RECURSIVE TotalColorsFrom(_, _, _)
TotalColorsFrom(m, i, acc) ==
    IF i > Len(m) THEN acc
    ELSE LET progress == m[i].value IN
         TotalColorsFrom(m, i + 1,
            [ paintedPixelColorCounts |->
                  AddCounts(acc.paintedPixelColorCounts,
                            progress.paintedPixelColorCounts,
                            DOMAIN progress.paintedPixelColorCounts),
              wrongPixelColorCounts |->
                  AddCounts(acc.wrongPixelColorCounts,
                            progress.wrongPixelColorCounts,
                            DOMAIN progress.wrongPixelColorCounts) ])

computeTotalColorsProgress(m) ==
    TotalColorsFrom(m, 1,
        [ paintedPixelColorCounts |-> EmptyObject,
          wrongPixelColorCounts   |-> EmptyObject ])

\* ------------------------------------------------------------------------
\* Tile addresses
\* ------------------------------------------------------------------------

\* Width of the zero-padded tile fields and pixel fields of a tile address
\* ("1231,0047,183,593").
TileFieldWidth == 4
PixelFieldWidth == 3

\* utils.formatTileCoords([x, y]): the "xxxx,yyyy" prefix of a tile.
formatTileCoords(tileCoords) ==
    PadStart(ToDigits(tileCoords[1]), TileFieldWidth, "0") \o <<",">> \o
    PadStart(ToDigits(tileCoords[2]), TileFieldWidth, "0")

\* The key under which the chunker stores the fragment of tile (tx, ty)
\* whose top-left corner is pixel (px, py) of that tile.
TileAddress(tx, ty, px, py) ==
    formatTileCoords(<<tx, ty>>) \o <<",">> \o
    PadStart(ToDigits(px), PixelFieldWidth, "0") \o <<",">> \o
    PadStart(ToDigits(py), PixelFieldWidth, "0")

\* ------------------------------------------------------------------------
\* Template and TemplateArray (src/src/TemplateArray.js)
\* ------------------------------------------------------------------------

\* Object.keys(template.chunked): chunked is a sequence of [key, bitmap].
ChunkedKeys(chunked) == [i \in 1..Len(chunked) |-> chunked[i].key]

\* Array.prototype.slice(0, 2).
Slice02(parts) == SubSeq(parts, 1, IF Len(parts) < 2 THEN Len(parts) ELSE 2)

\* The index with a bug: only the first field of a key is recorded.
TilePrefixOfKeyFirstField(k) == Join(SubSeq(Split(k), 1, 1))

\* k.split(',').slice(0,2).join(',')
TilePrefixOfKey(k) == Join(Slice02(Split(k)))

\* Object.keys(templateTiles).forEach(k => template.tilePrefixes.add(...))
PopulateTilePrefixes(tilePrefixes, chunked) ==
    tilePrefixes \cup { TilePrefixOfKey(chunked[i].key) : i \in 1..Len(chunked) }

\* The fast path of isAnyTemplateInTile.
IndexLookup(template, tileCoords) == tileCoords \in template.tilePrefixes

\* The fallback of isAnyTemplateInTile and the filter of
\* getRelevantTemplateTileBlobs.
KeyScan(template, tileCoords) ==
    \E i \in 1..Len(template.chunked) : StartsWith(template.chunked[i].key, tileCoords)

\* The callback of isAnyTemplateInTile for one template. Every template
\* has a chunked object.
TemplateInTile(template, tileCoords) ==
    IF Cardinality(template.tilePrefixes) > 0
    THEN IndexLookup(template, tileCoords)
    ELSE KeyScan(template, tileCoords)

\* The early exit with a bug: any loaded template counts as touching.
AnyTemplateLoaded(templates, tileCoords) == Len(templates) > 0

isAnyTemplateInTile(templates, tileCoords) ==
    \E i \in 1..Len(templates) : TemplateInTile(templates[i], tileCoords)

\* Array.prototype.sort((a, b) => a.sortID - b.sortID): stable, ascending.
RECURSIVE InsertBySortID(_, _)
InsertBySortID(sorted, t) ==
    IF Len(sorted) = 0 THEN <<t>>
    ELSE IF sorted[Len(sorted)].sortID - t.sortID > 0
         THEN Append(InsertBySortID(SubSeq(sorted, 1, Len(sorted) - 1), t),
                     sorted[Len(sorted)])
         ELSE Append(sorted, t)

RECURSIVE SortFrom(_, _, _)
SortFrom(templates, i, sorted) ==
    IF i > Len(templates) THEN sorted
    ELSE SortFrom(templates, i + 1, InsertBySortID(sorted, templates[i]))

sortByPriority(templates) == SortFrom(templates, 1, <<>>)

\* Object.keys(template.chunked).filter(tile => tile.startsWith(tileCoords))
MatchingTiles(template, tileCoords) ==
    SelectSeq(template.chunked, LAMBDA e : StartsWith(e.key, tileCoords))

\* new TemplateTileBlob({bitmap, tileCoords, pixelCoords}) of the first
\* matching tile.
FirstTemplateTileBlob(matchingTiles) ==
    LET tile == matchingTiles[1]
        coords == Split(tile.key)
    IN [ bitmap      |-> tile.bitmap,
         tileCoords  |-> <<coords[1], coords[2]>>,
         pixelCoords |-> <<coords[3], coords[4]>> ]

\* getRelevantTemplateTileBlobs: map, then filter(Boolean).
RECURSIVE RelevantFrom(_, _, _)
RelevantFrom(templates, i, tileCoords) ==
    IF i > Len(templates) THEN <<>>
    ELSE LET matchingTiles == MatchingTiles(templates[i], tileCoords) IN
         IF Len(matchingTiles) = 0
         THEN RelevantFrom(templates, i + 1, tileCoords)
         ELSE <<FirstTemplateTileBlob(matchingTiles)>> \o
              RelevantFrom(templates, i + 1, tileCoords)

getRelevantTemplateTileBlobs(templates, tileCoords) ==
    RelevantFrom(templates, 1, tileCoords)

\* ------------------------------------------------------------------------
\* TemplateManager (src/src/templateManager.js): constants and rasters
\* ------------------------------------------------------------------------

\* this.drawMult
DrawMult == 3

\* this.tileSize, 1000 in the program; the model uses small tiles.
TileSize == 2

\* const drawSize = this.tileSize * this.drawMult
drawSize == TileSize * DrawMult

\* null, for a buffer that was not captured
NullData == <<>>

\* The key of the bucket of colors outside the allowed palette.
Other == <<"o", "t", "h", "e", "r">>

\* The loops visit a w * h raster in row-major order; the n-th pixel
\* visited (from 0) is (n % w, n \div w).
PixelX(n, w) == n % w
PixelY(n, w) == n \div w

\* if ((x % this.drawMult) !== 1 || (y % this.drawMult) !== 1) { continue; }
IsCenterPixel(x, y) == ~((x % DrawMult) # 1 \/ (y % DrawMult) # 1)

\* context.drawImage(tileBitmap, 0, 0, drawSize, drawSize) without
\* smoothing, then getImageData: every tile pixel becomes a block of
\* DrawMult * DrawMult equal pixels. tilePixels is the row-major sequence
\* of the TileSize * TileSize pixels of the tile.
SnapshotOf(tilePixels) ==
    LET pixelAt(n) ==
            tilePixels[(PixelY(n, drawSize) \div DrawMult) * TileSize
                       + (PixelX(n, drawSize) \div DrawMult) + 1]
        byte(p, c) == CASE c = 0 -> p.red [] c = 1 -> p.green
                        [] c = 2 -> p.blue [] OTHER -> p.alpha
    IN [ k \in 1..(drawSize * drawSize * 4) |->
           byte(pixelAt((k - 1) \div 4), (k - 1) % 4) ]

\* ------------------------------------------------------------------------
\* drawTemplateOnTile: the body of the classification loop
\* ------------------------------------------------------------------------

\* The counters of one pass.
NewCounters ==
    [ paintedPixelCount       |-> 0,
      wrongPixelCount         |-> 0,
      totalPixelCount         |-> 0,
      paintedPixelColorCounts |-> EmptyObject,
      wrongPixelColorCounts   |-> EmptyObject,
      wrongPixelPositions     |-> <<>> ]

\* if (gx < 0 || gy < 0 || gx >= drawSize || gy >= drawSize) { continue; }
InsideTile(gx, gy) == ~(gx < 0 \/ gy < 0 \/ gx >= drawSize \/ gy >= drawSize)

\* The back-conversion with a bug: the offset is not divided.
WrongPixelPositionUndivided(template, x, y) ==
    [ tx |-> Number(template.tileCoords[1]),
      ty |-> Number(template.tileCoords[2]),
      px |-> Number(template.pixelCoords[1]) + (x - 1),
      py |-> Number(template.pixelCoords[2]) + (y - 1) ]

\* The entry pushed to wrongPixelPositions for local offset (x, y).
WrongPixelPosition(template, x, y) ==
    [ tx |-> Number(template.tileCoords[1]),
      ty |-> Number(template.tileCoords[2]),
      px |-> Number(template.pixelCoords[1]) + ((x - 1) \div DrawMult),
      py |-> Number(template.pixelCoords[2]) + ((y - 1) \div DrawMult) ]

\* activeTemplate?.allowedColorsSet ? activeTemplate.allowedColorsSet.has(colorKey) : false
\* with activeTemplate = this.templatesArray?.[0]
IsWPlaceColor(templates, colorKey) ==
    IF Len(templates) = 0 THEN FALSE
    ELSE colorKey \in templates[1].allowedColorsSet

\* wrongPixelCount++; wrongPixelColorCounts[shredPixel.getColorKey()]++;
\* wrongPixelPositions.push(...)
CountWrong(c, template, x, y, shredPixel, groundPixel) ==
    [c EXCEPT
       !.wrongPixelCount = @ + 1,
       !.wrongPixelColorCounts =
           Put(@, getColorKey(shredPixel), GetOrZero(@, getColorKey(shredPixel)) + 1),
       !.wrongPixelPositions = Append(@, WrongPixelPosition(template, x, y))]

\* paintedPixelCount++; paintedPixelColorCounts[shredPixel.getColorKey()]++
CountPainted(c, shredPixel) ==
    [c EXCEPT
       !.paintedPixelCount = @ + 1,
       !.paintedPixelColorCounts =
           Put(@, getColorKey(shredPixel), GetOrZero(@, getColorKey(shredPixel)) + 1)]

\* The branch of a template pixel with alpha < 64.
ClassifyUnpainted(c, template, x, y, shredPixel, snapshotPixel, templates) ==
    IF isPainted(snapshotPixel) /\ IsWPlaceColor(templates, getColorKey(snapshotPixel))
    THEN CountWrong(c, template, x, y, shredPixel, snapshotPixel)
    ELSE c

\* The required branch with a bug: an unpainted tile pixel counts as wrong.
ClassifyRequiredStrict(c, template, x, y, shredPixel, realPixel) ==
    LET counted == [c EXCEPT !.totalPixelCount = @ + 1] IN
    IF isPainted(realPixel) /\ equalsRGB(realPixel, shredPixel)
    THEN CountPainted(counted, shredPixel)
    ELSE CountWrong(counted, template, x, y, shredPixel, realPixel)

\* The branch of a template pixel with alpha >= 64.
ClassifyRequired(c, template, x, y, shredPixel, realPixel) ==
    LET counted == [c EXCEPT !.totalPixelCount = @ + 1] IN
    IF isPainted(realPixel) /\ equalsRGB(realPixel, shredPixel)
    THEN CountPainted(counted, shredPixel)
    ELSE IF isPainted(realPixel)
         THEN CountWrong(counted, template, x, y, shredPixel, realPixel)
         ELSE counted

\* The classification with a bug: a template pixel whose color is disabled
\* in the active palette is left out of the statistics.
ClassifyPixelEnabledOnly(c, template, x, y, tempData, tempWidth, snapshot, templates) ==
    LET globalOffsetX == Number(template.pixelCoords[1]) * DrawMult
        globalOffsetY == Number(template.pixelCoords[2]) * DrawMult
        gx == x + globalOffsetX
        gy == y + globalOffsetY
        shredPixel == getFromData(tempData, (y * tempWidth + x) * 4)
        groundPixel == getFromData(snapshot, (gy * drawSize + gx) * 4)
        palette == IF Len(templates) = 0 THEN EmptyObject ELSE templates[1].colorPalette
        key == getColorKey(shredPixel)
    IN IF ~((x % DrawMult) = 1 /\ (y % DrawMult) = 1) THEN c
       ELSE IF gx < 0 \/ gy < 0 \/ gx >= drawSize \/ gy >= drawSize THEN c
       ELSE IF HasKey(palette, key) /\ palette[key].enabled = FALSE THEN c
       ELSE IF isUnpainted(shredPixel)
            THEN ClassifyUnpainted(c, template, x, y, shredPixel, groundPixel, templates)
            ELSE ClassifyRequired(c, template, x, y, shredPixel, groundPixel)

\* One iteration of the classification loop at (x, y) of the fragment's
\* raster tempData (tempWidth wide), against the snapshot of the tile.
ClassifyPixel(c, template, x, y, tempData, tempWidth, snapshot, templates) ==
    LET globalOffsetX == Number(template.pixelCoords[1]) * DrawMult
        globalOffsetY == Number(template.pixelCoords[2]) * DrawMult
        gx == x + globalOffsetX
        gy == y + globalOffsetY
        shredPixel == getFromData(tempData, (y * tempWidth + x) * 4)
        groundPixel == getFromData(snapshot, (gy * drawSize + gx) * 4)
    IN IF ~IsCenterPixel(x, y) THEN c
       ELSE IF ~InsideTile(gx, gy) THEN c
       ELSE IF isUnpainted(shredPixel)
            THEN ClassifyUnpainted(c, template, x, y, shredPixel, groundPixel, templates)
            ELSE ClassifyRequired(c, template, x, y, shredPixel, groundPixel)

\* ------------------------------------------------------------------------
\* drawTemplateOnTile: the palette filter
\* ------------------------------------------------------------------------

\* const palette = activeTemplate?.colorPalette || {}
ActivePalette(templates) ==
    IF Len(templates) = 0 THEN EmptyObject ELSE templates[1].colorPalette

\* Object.values(palette).some(v => v?.enabled === false)
HasDisabled(palette) == \E k \in DOMAIN palette : palette[k].enabled = FALSE

\* activeTemplate?.allowedColorsSet ? activeTemplate.allowedColorsSet.has(key) : true
InWplacePalette(templates, colorKey) ==
    IF Len(templates) = 0 THEN TRUE
    ELSE colorKey \in templates[1].allowedColorsSet

\* palette?.[inWplacePalette ? pixel.getColorKey() : 'other']?.enabled !== false
IsPaletteColorEnabled(palette, inWplacePalette, colorKey) ==
    LET key == IF inWplacePalette THEN colorKey ELSE Other IN
    IF HasKey(palette, key) THEN palette[key].enabled # FALSE ELSE TRUE

\* if (!inWplacePalette || !isPaletteColorEnabled)
HidesPixel(templates, palette, pixel) ==
    LET inWplacePalette == InWplacePalette(templates, getColorKey(pixel)) IN
    \/ ~inWplacePalette
    \/ ~IsPaletteColorEnabled(palette, inWplacePalette, getColorKey(pixel))

\* One iteration of the filter loop at (x, y): the new filterImgData.
FilterPixel(filterImgData, x, y, tempWidth, templates) ==
    LET pixelIndex == (y * tempWidth + x) * 4
        pixel == getFromData(filterImgData, pixelIndex)
    IN IF ~IsCenterPixel(x, y) THEN filterImgData
       ELSE IF pixel.alpha < 1 THEN filterImgData
       ELSE IF HidesPixel(templates, ActivePalette(templates), pixel)
            THEN [filterImgData EXCEPT ![pixelIndex + 4] = 0]
            ELSE filterImgData

\* ------------------------------------------------------------------------
\* #parseBlueMarble: one template of the stored JSON
\* ------------------------------------------------------------------------

\* The state of the counting loops of one tile. threw: the loops were left
\* by an exception (caught by the catch around them). inspected: the
\* pixels that passed the center test, kept for the properties below.
NewCount(requiredPixelCount, paletteMap) ==
    [ requiredPixelCount |-> requiredPixelCount,
      paletteMap         |-> paletteMap,
      threw              |-> FALSE,
      inspected          |-> {} ]

\* One iteration of the counting loops at (x, y). The line after
\* requiredPixelCount++ reads activeTemplate, which is declared nowhere in
\* #parseBlueMarble or in the module: evaluating it throws a
\* ReferenceError, after the increment and before paletteMap.set.
CountPixel(acc, x, y, data, w) ==
    LET idx == (y * w + x) * 4
        r == data[idx + 1]
        g == data[idx + 2]
        b == data[idx + 3]
        a == data[idx + 4]
        seen == [acc EXCEPT !.inspected = @ \cup {<<x, y>>}]
    IN IF ~IsCenterPixel(x, y) THEN acc
       ELSE IF a < 64 THEN seen
       ELSE IF r = 222 /\ g = 250 /\ b = 206 THEN seen
       ELSE [seen EXCEPT !.requiredPixelCount = @ + 1, !.threw = TRUE]

\* for (let y = 0; y < h; y++) { for (let x = 0; x < w; x++) { ... } }
\* inside try { } catch (e) { console.warn(...) }
RECURSIVE CountFrom(_, _, _)
CountFrom(bitmap, n, acc) ==
    IF n >= bitmap.width * bitmap.height \/ acc.threw THEN acc
    ELSE CountFrom(bitmap, n + 1,
                   CountPixel(acc, PixelX(n, bitmap.width), PixelY(n, bitmap.width),
                              bitmap.data, bitmap.width))

\* The loop over the tiles of one template: the counts after tile i.
RECURSIVE CountTilesFrom(_, _, _)
CountTilesFrom(tiles, i, counts) ==
    IF i > Len(tiles) THEN counts
    ELSE LET before == IF i = 1 THEN NewCount(0, EmptyObject) ELSE counts[i - 1] IN
         CountTilesFrom(tiles, i + 1,
                        Append(counts,
                               CountFrom(tiles[i].bitmap, 0,
                                         NewCount(before.requiredPixelCount,
                                                  before.paletteMap))))

CountTiles(tiles) == CountTilesFrom(tiles, 1, <<>>)

\* The tiles that `for (const tile in tilesbase64)` decodes before the
\* first one that base64ToUint8 or createImageBitmap fails on.
RECURSIVE DecodedBefore(_)
DecodedBefore(tiles) ==
    IF Len(tiles) = 0 \/ ~tiles[1].decodes THEN <<>>
    ELSE <<tiles[1]>> \o DecodedBefore(Tail(tiles))

\* templateTiles: the bitmaps by key.
TemplateTiles(tiles) == [ i \in 1..Len(tiles) |-> [key |-> tiles[i].key, bitmap |-> tiles[i].bitmap] ]

\* for (const [key, count] of paletteMap.entries()) paletteObj[key] = {count, enabled: true}
PaletteFromMap(paletteMap) ==
    [ k \in DOMAIN paletteMap |-> [count |-> paletteMap[k], enabled |-> TRUE] ]

\* Merge of the persisted palette: enabled: !!meta?.enabled, and
\* count: meta?.count || 0 for a key the template did not have.
MergePalette(colorPalette, persisted) ==
    [ rgb \in (DOMAIN colorPalette) \cup (DOMAIN persisted) |->
        IF rgb \notin DOMAIN persisted THEN colorPalette[rgb]
        ELSE IF rgb \notin DOMAIN colorPalette
             THEN [count |-> persisted[rgb].count, enabled |-> persisted[rgb].enabled]
             ELSE [colorPalette[rgb] EXCEPT !.enabled = persisted[rgb].enabled] ]

\* The colors of the site palette, which the Template constructor stores
\* as allowedColorsSet.
AllowedColors ==
    { getColorKey(Pixel(10, 20, 30, 255)),
      getColorKey(Pixel(0, 0, 0, 255)),
      getColorKey(Pixel(222, 250, 206, 255)) }

\* The Template that #parseBlueMarble pushes for the JSON entry `entry`
\* when templatesArray holds `templates`.
ParsedTemplate(entry, templates) ==
    LET templateKeyArray == SplitOn(entry.templateKey, " ")
        sortID == Number(templateKeyArray[1])
        counts == CountTiles(entry.tiles)
        requiredPixelCount ==
            IF Len(counts) = 0 THEN 0 ELSE counts[Len(counts)].requiredPixelCount
        paletteMap ==
            IF Len(counts) = 0 THEN EmptyObject ELSE counts[Len(counts)].paletteMap
    IN [ sortID             |-> IF sortID # 0 THEN sortID ELSE Len(templates),
         chunked            |-> TemplateTiles(entry.tiles),
         requiredPixelCount |-> requiredPixelCount,
         colorPalette       |-> MergePalette(PaletteFromMap(paletteMap), entry.palette),
         tilePrefixes       |-> PopulateTilePrefixes({}, TemplateTiles(entry.tiles)),
         allowedColorsSet   |-> AllowedColors,
         storageKey         |-> entry.templateKey ]

\* ------------------------------------------------------------------------
\* createTemplate: the Template it installs
\* ------------------------------------------------------------------------

\* The colorPalette the chunker builds from the center pixels of a raster
\* from pixel n on: one entry per color key (or "other"), all enabled.
RECURSIVE CreatedPaletteFrom(_, _, _)
CreatedPaletteFrom(bitmap, n, palette) ==
    IF n >= bitmap.width * bitmap.height THEN palette
    ELSE LET x == PixelX(n, bitmap.width)
             y == PixelY(n, bitmap.width)
             pixel == getFromData(bitmap.data, (y * bitmap.width + x) * 4)
             key == IF getColorKey(pixel) \in AllowedColors THEN getColorKey(pixel) ELSE Other
             count == IF HasKey(palette, key) THEN palette[key].count ELSE 0
         IN CreatedPaletteFrom(bitmap, n + 1,
               IF IsCenterPixel(x, y) /\ isPainted(pixel)
               THEN Put(palette, key, [count |-> count + 1, enabled |-> TRUE])
               ELSE palette)

RECURSIVE CreatedPaletteOfTiles(_, _, _)
CreatedPaletteOfTiles(tiles, i, palette) ==
    IF i > Len(tiles) THEN palette
    ELSE CreatedPaletteOfTiles(tiles, i + 1, CreatedPaletteFrom(tiles[i].bitmap, 0, palette))

\* const storageKey = `${template.sortID} ${template.authorID}`
StorageKey(sortID) == ToDigits(sortID) \o <<" ", "$", "Z">>

\* The Template of createTemplate after createTemplateTiles returned
\* `templateTiles`, when this.templatesJSON.templates has `stored` entries.
\* It has no requiredPixelCount of its own (0 here).
CreatedTemplate(templateTiles, stored) ==
    LET palette == CreatedPaletteOfTiles(templateTiles, 1, EmptyObject) IN
    [ sortID             |-> stored,
      chunked            |-> templateTiles,
      requiredPixelCount |-> 0,
      colorPalette       |-> palette,
      tilePrefixes       |-> PopulateTilePrefixes({}, templateTiles),
      allowedColorsSet   |-> AllowedColors,
      storageKey         |-> StorageKey(stored) ]

\* ------------------------------------------------------------------------
\* State
\* ------------------------------------------------------------------------

VARIABLES
    templatesArray,          \* this.templatesArray
    templatesShouldBeDrawn,  \* this.templatesShouldBeDrawn
    tileProgress,            \* this.tileProgress.tileProgress, a Map
    json,                    \* json.templates handed to #parseBlueMarble
    parsed,                  \* how many of its templates the loop has pushed
    importRejected,          \* the promise of #parseBlueMarble was rejected
    templatesJSON,           \* how many entries this.templatesJSON.templates has
    pass,                    \* the locals of each drawTemplateOnTile call
    running,                 \* the call that runs between two awaits, 0: none
    inspected,               \* <<loop, a, b, x, y>>: pixels that passed a center test
    loopsOver,               \* <<loop, a, b>>: loops that began and are over
    lastSet,                 \* per address: the progress most recently set,
                             \* whether it replaced an earlier one, and the
                             \* call that set it (0: none of the calls)
    indexed,                 \* a template whose index is under test
    probe                    \* the last lookup made on it

vars == << templatesArray, templatesShouldBeDrawn, tileProgress, json, parsed, importRejected,
                    templatesJSON,
           pass, running, inspected, loopsOver, lastSet, indexed, probe >>

\* The drawTemplateOnTile calls of a behaviour, numbered in call order.
Passes == {1, 2}

\* The locals of a call that has not started.
IdlePass ==
    [ pc                      |-> "idle",
      coords                  |-> <<>>,
      tileCoords              |-> <<>>,
      tileBlob                |-> <<>>,
      templatesArrayCopy      |-> <<>>,
      templateTileBlobsToDraw |-> <<>>,
      counters                |-> NewCounters,
      tilePixelsSnapshot      |-> NullData,
      i                       |-> 0,
      n                       |-> 0,
      filterImgData           |-> NullData,
      canvas                  |-> <<>>,
      result                  |-> "pending" ]

\* The fragment the loop of pass p is at.
Fragment(p) == pass[p].templateTileBlobsToDraw[pass[p].i]

\* The end of one iteration of `for (const template of templateTileBlobsToDraw)`.
AfterFragment(ps) ==
    IF ps.i < Len(ps.templateTileBlobsToDraw)
    THEN [ps EXCEPT !.i = @ + 1, !.pc = "fragment"]
    ELSE [ps EXCEPT !.pc = "save"]

\* context.drawImage(image, pixelCoords[0] * drawMult, pixelCoords[1] * drawMult)
DrawOnCanvas(ps, what, data) ==
    LET template == ps.templateTileBlobsToDraw[ps.i] IN
    [ps EXCEPT !.canvas = Append(@,
        [ what |-> what, i |-> ps.i, data |-> data,
          x |-> Number(template.pixelCoords[1]) * DrawMult,
          y |-> Number(template.pixelCoords[2]) * DrawMult ])]

\* The constructor of TemplateManager; nothing is imported, no tile has
\* arrived.
InitManager ==
    /\ templatesArray = <<>>
    /\ templatesShouldBeDrawn = TRUE
    /\ tileProgress = <<>>
    /\ parsed = 0
    /\ importRejected = FALSE
    /\ templatesJSON = 0
    /\ pass = [p \in Passes |-> IdlePass]
    /\ running = 0
    /\ inspected = {}
    /\ loopsOver = {}
    /\ lastSet = EmptyObject

\* ------------------------------------------------------------------------
\* #parseBlueMarble
\* ------------------------------------------------------------------------

\* One iteration of `for (const template in templates)`: the tiles are
\* decoded and counted (the awaits of the decoding touch no shared
\* state), then the template is built and pushed without a further await.
\* base64ToUint8 and `await createImageBitmap(templateBlob)` stand outside
\* the try block: a tile that does not decode rejects the promise of
\* #parseBlueMarble, after the tiles before it were counted and before
\* anything is pushed.
ParseTemplate ==
    /\ running = 0
    /\ ~importRejected
    /\ parsed < Len(json)
    /\ LET entry == json[parsed + 1]
           decoded == DecodedBefore(entry.tiles)
           counts == CountTiles(decoded)
       IN /\ IF Len(decoded) = Len(entry.tiles)
             THEN /\ templatesArray' =
                        Append(templatesArray, ParsedTemplate(entry, templatesArray))
                  /\ parsed' = parsed + 1
                  /\ UNCHANGED importRejected
             ELSE /\ importRejected' = TRUE
                  /\ UNCHANGED << templatesArray, parsed >>
          /\ inspected' = inspected \cup
                UNION { { <<"import", parsed + 1, t, q[1], q[2]>> : q \in counts[t].inspected } :
                        t \in 1..Len(counts) }
          /\ loopsOver' = loopsOver \cup { <<"import", parsed + 1, t>> : t \in 1..Len(counts) }
    /\ UNCHANGED << templatesShouldBeDrawn, tileProgress, json, pass, running,
                    templatesJSON, lastSet, indexed, probe >>

\* How many templates are created in a behaviour.
MaxCreated == 1

\* createTemplate, from the return of createTemplateTiles to the await of
\* #storeTemplates: the template is stored in templatesJSON, the loaded
\* templates are discarded and the new one is installed. The aggregator
\* is not touched.
CreateTemplate(templateTiles) ==
    /\ running = 0
    /\ templatesJSON < MaxCreated
    /\ templatesArray' = << CreatedTemplate(templateTiles, templatesJSON) >>
    /\ templatesJSON' = templatesJSON + 1
    /\ UNCHANGED << templatesShouldBeDrawn, tileProgress, json, parsed, importRejected,
                    pass, running, inspected, loopsOver, lastSet, indexed, probe >>

\* setTemplatesShouldBeDrawn(value)
SetTemplatesShouldBeDrawn(value) ==
    /\ running = 0
    /\ templatesShouldBeDrawn' = value
    /\ UNCHANGED << templatesArray, tileProgress, json, parsed, importRejected,
                    templatesJSON, pass, running,
                    inspected, loopsOver, lastSet, indexed, probe >>

\* ------------------------------------------------------------------------
\* drawTemplateOnTile
\* ------------------------------------------------------------------------

\* templatesArrayCopy holds the templates as they were when the fragments
\* were selected.
\* From the call to the first await (createImageBitmap), or to one of the
\* two early returns. sortByPriority sorts this.templatesArray itself: the
\* TemplateArray wraps the same array.
StartPass(p, coords, tileBlob) ==
    /\ running = 0
    /\ pass[p].pc = "idle"
    /\ \A q \in Passes : q < p => pass[q].pc # "idle"
    /\ IF ~templatesShouldBeDrawn
       THEN /\ pass' = [pass EXCEPT ![p] = [@ EXCEPT !.pc = "done", !.coords = coords,
                                                     !.tileBlob = tileBlob,
                                                     !.result = "tileBlob"]]
            /\ UNCHANGED templatesArray
       ELSE LET tileCoords == formatTileCoords(coords)
                sorted == sortByPriority(templatesArray)
            IN /\ templatesArray' = sorted
               /\ IF ~isAnyTemplateInTile(sorted, tileCoords)
                  THEN pass' = [pass EXCEPT ![p] =
                                  [@ EXCEPT !.pc = "done", !.coords = coords,
                                            !.tileCoords = tileCoords,
                                            !.tileBlob = tileBlob, !.result = "tileBlob"]]
                  ELSE pass' = [pass EXCEPT ![p] =
                                  [@ EXCEPT !.pc = "decode", !.coords = coords,
                                            !.tileCoords = tileCoords,
                                            !.tileBlob = tileBlob,
                                            !.templatesArrayCopy = sorted,
                                            !.templateTileBlobsToDraw =
                                                getRelevantTemplateTileBlobs(sorted, tileCoords),
                                            !.counters = NewCounters]]
    /\ UNCHANGED << templatesShouldBeDrawn, tileProgress, json, parsed, importRejected,
                    templatesJSON, running,
                    inspected, loopsOver, lastSet, indexed, probe >>

\* await createImageBitmap(tileBlob) rejects: nothing catches it.
DecodeFails(p) ==
    /\ running = 0
    /\ pass[p].pc = "decode"
    /\ pass' = [pass EXCEPT ![p] = [@ EXCEPT !.pc = "done", !.result = "rejected"]]
    /\ UNCHANGED << templatesArray, templatesShouldBeDrawn, tileProgress, json, parsed, importRejected,
                    templatesJSON,
                    running, inspected, loopsOver, lastSet, indexed, probe >>

\* The tile is decoded and drawn on the canvas; getImageData either
\* returns the snapshot or throws, which leaves tilePixelsSnapshot null.
TileDecoded(p, captured) ==
    /\ running = 0
    /\ pass[p].pc = "decode"
    /\ running' = p
    /\ pass' = [pass EXCEPT ![p] =
          [@ EXCEPT
             !.canvas = <<[what |-> "tile", i |-> 0, data |-> NullData, x |-> 0, y |-> 0]>>,
             !.tilePixelsSnapshot =
                 IF captured THEN SnapshotOf(pass[p].tileBlob) ELSE NullData,
             !.i = IF Len(pass[p].templateTileBlobsToDraw) = 0 THEN 0 ELSE 1,
             !.pc = IF Len(pass[p].templateTileBlobsToDraw) = 0 THEN "save" ELSE "fragment"]]
    /\ UNCHANGED << templatesArray, templatesShouldBeDrawn, tileProgress, json, parsed, importRejected,
                    templatesJSON,
                    inspected, loopsOver, lastSet, indexed, probe >>

\* if (tilePixelsSnapshot) { try { ... the loops begin
BeginClassify(p) ==
    /\ running = p
    /\ pass[p].pc = "fragment"
    /\ pass[p].tilePixelsSnapshot # NullData
    /\ pass' = [pass EXCEPT ![p] = [@ EXCEPT !.pc = "classify", !.n = 0]]
    /\ UNCHANGED << templatesArray, templatesShouldBeDrawn, tileProgress, json, parsed, importRejected,
                    templatesJSON,
                    running, inspected, loopsOver, lastSet, indexed, probe >>

\* Reading the fragment's raster throws: catch (exception) { console.warn }
ClassifyThrows(p) ==
    /\ running = p
    /\ pass[p].pc = "fragment"
    /\ pass[p].tilePixelsSnapshot # NullData
    /\ pass' = [pass EXCEPT ![p] = [@ EXCEPT !.pc = "draw"]]
    /\ UNCHANGED << templatesArray, templatesShouldBeDrawn, tileProgress, json, parsed, importRejected,
                    templatesJSON,
                    running, inspected, loopsOver, lastSet, indexed, probe >>

\* No snapshot: the statistics of the fragment are skipped.
SkipClassify(p) ==
    /\ running = p
    /\ pass[p].pc = "fragment"
    /\ pass[p].tilePixelsSnapshot = NullData
    /\ pass' = [pass EXCEPT ![p] = [@ EXCEPT !.pc = "draw"]]
    /\ UNCHANGED << templatesArray, templatesShouldBeDrawn, tileProgress, json, parsed, importRejected,
                    templatesJSON,
                    running, inspected, loopsOver, lastSet, indexed, probe >>

\* One iteration of the classification loops.
ClassifyIter(p) ==
    /\ running = p
    /\ pass[p].pc = "classify"
    /\ LET template == Fragment(p)
           tempWidth == template.bitmap.width
           tempHeight == template.bitmap.height
           x == PixelX(pass[p].n, tempWidth)
           y == PixelY(pass[p].n, tempWidth)
           last == pass[p].n + 1 = tempWidth * tempHeight
       IN /\ pass' = [pass EXCEPT ![p] =
                [@ EXCEPT
                   !.counters = ClassifyPixel(@, template, x, y, template.bitmap.data,
                                              tempWidth, pass[p].tilePixelsSnapshot,
                                              templatesArray),
                   !.n = @ + 1,
                   !.pc = IF last THEN "draw" ELSE "classify"]]
          /\ inspected' = IF IsCenterPixel(x, y)
                          THEN inspected \cup {<<"classify", p, pass[p].i, x, y>>}
                          ELSE inspected
          /\ loopsOver' = IF last THEN loopsOver \cup {<<"classify", p, pass[p].i>>}
                          ELSE loopsOver
    /\ UNCHANGED << templatesArray, templatesShouldBeDrawn, tileProgress, json, parsed, importRejected,
                    templatesJSON,
                    running, lastSet, indexed, probe >>

\* No color of the active palette is disabled: the bitmap is drawn as is.
DrawRaw(p) ==
    /\ running = p
    /\ pass[p].pc = "draw"
    /\ ~HasDisabled(ActivePalette(templatesArray))
    /\ pass' = [pass EXCEPT ![p] =
                  AfterFragment(DrawOnCanvas(@, "raw", Fragment(p).bitmap.data))]
    /\ UNCHANGED << templatesArray, templatesShouldBeDrawn, tileProgress, json, parsed, importRejected,
                    templatesJSON,
                    running, inspected, loopsOver, lastSet, indexed, probe >>

\* A color is disabled: the filtered copy is made and its loops begin.
BeginFilter(p) ==
    /\ running = p
    /\ pass[p].pc = "draw"
    /\ HasDisabled(ActivePalette(templatesArray))
    /\ pass' = [pass EXCEPT ![p] =
                  [@ EXCEPT !.pc = "filter", !.n = 0,
                            !.filterImgData = Fragment(p).bitmap.data]]
    /\ UNCHANGED << templatesArray, templatesShouldBeDrawn, tileProgress, json, parsed, importRejected,
                    templatesJSON,
                    running, inspected, loopsOver, lastSet, indexed, probe >>

\* The try block of the overlay throws: the catch draws the raw bitmap,
\* and a drawImage that throws there is caught by nothing.
FilterThrows(p, fallbackDraws) ==
    /\ pass[p].pc = "draw"
    /\ running = p
    /\ IF fallbackDraws
       THEN /\ pass' = [pass EXCEPT ![p] =
                          AfterFragment(DrawOnCanvas(@, "fallback", Fragment(p).bitmap.data))]
            /\ UNCHANGED running
       ELSE /\ pass' = [pass EXCEPT ![p] = [@ EXCEPT !.pc = "done", !.result = "rejected"]]
            /\ running' = 0
    /\ UNCHANGED << templatesArray, templatesShouldBeDrawn, tileProgress, json, parsed, importRejected,
                    templatesJSON,
                    inspected, loopsOver, lastSet, indexed, probe >>

\* One iteration of the filter loops; after the last one the filtered
\* copy is drawn.
FilterIter(p) ==
    /\ running = p
    /\ pass[p].pc = "filter"
    /\ LET template == Fragment(p)
           tempWidth == template.bitmap.width
           tempHeight == template.bitmap.height
           x == PixelX(pass[p].n, tempWidth)
           y == PixelY(pass[p].n, tempWidth)
           last == pass[p].n + 1 = tempWidth * tempHeight
           filtered == FilterPixel(pass[p].filterImgData, x, y, tempWidth, templatesArray)
       IN /\ pass' = [pass EXCEPT ![p] =
                IF last
                THEN AfterFragment(DrawOnCanvas(
                        [@ EXCEPT !.filterImgData = filtered, !.n = @ + 1],
                        "filtered", filtered))
                ELSE [@ EXCEPT !.filterImgData = filtered, !.n = @ + 1]]
          /\ inspected' = IF IsCenterPixel(x, y)
                          THEN inspected \cup {<<"filter", p, pass[p].i, x, y>>}
                          ELSE inspected
          /\ loopsOver' = IF last THEN loopsOver \cup {<<"filter", p, pass[p].i>>}
                          ELSE loopsOver
    /\ UNCHANGED << templatesArray, templatesShouldBeDrawn, tileProgress, json, parsed, importRejected,
                    templatesJSON,
                    running, lastSet, indexed, probe >>

\* new TileProgress({...}) from the counters of a pass.
ProgressOf(c) ==
    TileProgress(c.totalPixelCount, c.paintedPixelCount, c.wrongPixelCount,
                 c.paintedPixelColorCounts, c.wrongPixelColorCounts,
                 c.wrongPixelPositions)

\* if (templateCount > 0)
RecordsProgress(ps) == Len(ps.templateTileBlobsToDraw) > 0

\* After the loop over the fragments: the record of the tile is written,
\* then the call waits for canvas.convertToBlob.
SaveProgress(p) ==
    /\ running = p
    /\ pass[p].pc = "save"
    /\ IF RecordsProgress(pass[p])
       THEN /\ tileProgress' = MapSet(tileProgress, pass[p].tileCoords,
                                      ProgressOf(pass[p].counters))
            /\ lastSet' = Put(lastSet, pass[p].tileCoords,
                               [ progress |-> ProgressOf(pass[p].counters),
                                 replaced |-> HasKey(lastSet, pass[p].tileCoords),
                                 by       |-> p ])
       ELSE UNCHANGED << tileProgress, lastSet >>
    /\ pass' = [pass EXCEPT ![p] = [@ EXCEPT !.pc = "encode"]]
    /\ running' = 0
    /\ UNCHANGED << templatesArray, templatesShouldBeDrawn, json, parsed, importRejected,
                    templatesJSON,
                    inspected, loopsOver, indexed, probe >>

\* await canvas.convertToBlob resolves (the image is returned) or rejects.
EncodeTile(p, encoded) ==
    /\ running = 0
    /\ pass[p].pc = "encode"
    /\ pass' = [pass EXCEPT ![p] =
                  [@ EXCEPT !.pc = "done",
                            !.result = IF encoded THEN "image" ELSE "rejected"]]
    /\ UNCHANGED << templatesArray, templatesShouldBeDrawn, tileProgress, json, parsed, importRejected,
                    templatesJSON,
                    running, inspected, loopsOver, lastSet, indexed, probe >>

\* Every step of call p after it has started.
PassStep(p) ==
    \/ DecodeFails(p)
    \/ \E captured \in BOOLEAN : TileDecoded(p, captured)
    \/ BeginClassify(p)
    \/ ClassifyThrows(p)
    \/ SkipClassify(p)
    \/ ClassifyIter(p)
    \/ DrawRaw(p)
    \/ BeginFilter(p)
    \/ \E fallbackDraws \in BOOLEAN : FilterThrows(p, fallbackDraws)
    \/ FilterIter(p)
    \/ SaveProgress(p)
    \/ \E encoded \in BOOLEAN : EncodeTile(p, encoded)

\* ------------------------------------------------------------------------
\* Inputs
\* ------------------------------------------------------------------------

\* Template pixels: a required color of the site palette, a required color
\* outside it, a blank cell that is not fully transparent, a transparent one.
ReqA == Pixel(10, 20, 30, 255)
ReqC == Pixel(1, 2, 3, 64)
Blank == Pixel(0, 0, 0, 63)
Clear == Pixel(0, 0, 0, 0)

TemplatePixels == {ReqA, ReqC, Blank, Clear}

\* Pixels of the live tile: painted in a palette color, painted in a color
\* outside the palette, not painted.
GroundPixels == {Pixel(10, 20, 30, 64), Pixel(1, 2, 3, 255), Pixel(10, 20, 30, 63)}

\* The raster of a fragment one block high: the pixels of `centers` at the
\* centers of their blocks, `fill` around them.
MakeBitmap(centers, fill) ==
    LET w == Len(centers) * DrawMult
        h == DrawMult
        c == (DrawMult - 1) \div 2
        pixelAt(n) ==
            IF PixelX(n, w) % DrawMult = c /\ PixelY(n, w) % DrawMult = c
            THEN centers[(PixelX(n, w) \div DrawMult) + 1]
            ELSE fill
        byte(p, k) == CASE k = 0 -> p.red [] k = 1 -> p.green
                        [] k = 2 -> p.blue [] OTHER -> p.alpha
    IN [ width |-> w, height |-> h,
         data |-> [ k \in 1..(w * h * 4) |-> byte(pixelAt((k - 1) \div 4), (k - 1) % 4) ] ]

\* How many template pixels wide a fragment is.
FragmentPixels == 2

\* A tile whose rows are all equal to `columns`.
ColumnTile(columns) == [ k \in 1..(TileSize * TileSize) |-> columns[((k - 1) % TileSize) + 1] ]

KeyA == getColorKey(ReqA)
KeyB == getColorKey(Blank)

Entry(count, enabled) == [count |-> count, enabled |-> enabled]

\* Persisted palettes: nothing disabled; one color disabled; one color
\* disabled and the bucket of the other colors enabled; the bucket disabled.
NoneDisabled == EmptyObject
OneDisabled == Put(EmptyObject, KeyA, Entry(1, FALSE))
OtherEnabled == Put(OneDisabled, Other, Entry(1, TRUE))
OtherDisabled ==
    Put(Put(Put(EmptyObject, KeyB, Entry(1, FALSE)), Other, Entry(1, FALSE)),
        KeyA, Entry(1, TRUE))

Palettes == { NoneDisabled, OneDisabled, OtherEnabled, OtherDisabled }

JsonTemplate(sortID, tiles, palette) ==
    [ templateKey |-> StorageKey(sortID), tiles |-> tiles, palette |-> palette ]

\* A stored tile that decodes to `bitmap`.
JsonTile(tx, ty, px, py, bitmap) ==
    [ key |-> TileAddress(tx, ty, px, py), bitmap |-> bitmap, decodes |-> TRUE ]

\* Stored JSON with one template of one fragment on tile (0, 1), of every
\* content, at pixel offset 0 or 1 of the tile.
PixelStores ==
    { << JsonTemplate(1, << JsonTile(0, 1, px, px, MakeBitmap(centers, ReqA)) >>, palette) >> :
        centers \in [1..FragmentPixels -> TemplatePixels],
        px \in {0, 1},
        palette \in Palettes }

PixelTiles == { ColumnTile(c) : c \in [1..TileSize -> GroundPixels] }

\* Stored JSON for whole passes: one template; two templates on two
\* tiles, stored against their priority; two templates on one tile.
PlainBitmap == MakeBitmap([k \in 1..FragmentPixels |-> IF k = 1 THEN ReqA ELSE ReqC], Clear)

PassStores ==
    { << JsonTemplate(1, << JsonTile(0, 1, 0, 0, PlainBitmap) >>, EmptyObject) >>,
      << JsonTemplate(2, << JsonTile(0, 1, 0, 0, PlainBitmap) >>, EmptyObject),
         JsonTemplate(1, << JsonTile(0, 10, 0, 0, PlainBitmap) >>,
                      Put(EmptyObject, KeyA, Entry(1, FALSE))) >>,
      << JsonTemplate(1, << JsonTile(0, 1, 0, 0, PlainBitmap) >>, EmptyObject),
         JsonTemplate(2, << JsonTile(0, 1, 1, 0, PlainBitmap) >>, EmptyObject) >> }

PassTiles ==
    { ColumnTile([k \in 1..TileSize |-> Pixel(10, 20, 30, 255)]),
      ColumnTile([k \in 1..TileSize |-> Pixel(10, 20, 30, 63)]) }

\* The tiles that arrive: two with templates in the stores, one without.
PassCoords == { <<0, 1>>, <<0, 10>>, <<1, 0>> }

\* ------------------------------------------------------------------------
\* Specifications
\* ------------------------------------------------------------------------

NoIndex == [ chunked |-> <<>>, tilePrefixes |-> {}, populated |-> FALSE ]
NoProbe == [ tileCoords |-> <<>>, fast |-> FALSE, scan |-> FALSE ]

\* Whole passes: templates are imported, tiles arrive, the calls interleave
\* at their awaits.
Init ==
    /\ InitManager
    /\ json \in PassStores
    /\ indexed = NoIndex
    /\ probe = NoProbe

Next ==
    \/ ParseTemplate
    \/ \E value \in BOOLEAN : SetTemplatesShouldBeDrawn(value)
    \/ \E p \in Passes, coords \in PassCoords, tileBlob \in PassTiles :
          StartPass(p, coords, tileBlob)
    \/ \E p \in Passes : PassStep(p)

Spec == Init /\ [][Next]_vars

\* One pass over one fragment of every content.
InitPixels ==
    /\ InitManager
    /\ json \in PixelStores
    /\ indexed = NoIndex
    /\ probe = NoProbe

NextPixels ==
    \/ ParseTemplate
    \/ \E tileBlob \in PixelTiles : StartPass(1, <<0, 1>>, tileBlob)
    \/ PassStep(1)

SpecPixels == InitPixels /\ [][NextPixels]_vars

\* TileProgressManager on its own: any sequence of set calls.
PositionAt(px, py) == [tx |-> 0, ty |-> 1, px |-> px, py |-> py]

ProgressInputs ==
    { TileProgress(0, 0, 0, EmptyObject, EmptyObject, <<>>),
      TileProgress(2, 1, 1, Put(EmptyObject, KeyA, 1), Put(EmptyObject, KeyB, 1),
                   <<PositionAt(0, 0)>>),
      TileProgress(3, 1, 2, Put(EmptyObject, KeyA, 1), Put(EmptyObject, KeyA, 2),
                   <<PositionAt(1, 0), PositionAt(1, 1)>>),
      TileProgress(3, 3, 0, Put(Put(EmptyObject, KeyA, 2), KeyB, 1), EmptyObject, <<>>) }

ProgressKeys == { formatTileCoords(c) : c \in PassCoords }

\* this.tileProgress.set(tileKey, progress)
SetProgress(tileKey, progress) ==
    /\ tileProgress' = MapSet(tileProgress, tileKey, progress)
    /\ lastSet' = Put(lastSet, tileKey,
                       [ progress |-> progress, replaced |-> HasKey(lastSet, tileKey),
                         by |-> 0 ])
    /\ UNCHANGED << templatesArray, templatesShouldBeDrawn, json, parsed, importRejected,
                    templatesJSON, pass, running,
                    inspected, loopsOver, indexed, probe >>

InitProgress ==
    /\ InitManager
    /\ json = <<>>
    /\ indexed = NoIndex
    /\ probe = NoProbe

NextProgress == \E tileKey \in ProgressKeys, progress \in ProgressInputs :
                    SetProgress(tileKey, progress)

SpecProgress == InitProgress /\ [][NextProgress]_vars

\* The tile index of one template: any fragments on tiles whose
\* coordinates share digits, the index filled from them, then lookups.
IndexCoord == {0, 1, 10, 11}

IndexKeys == { TileAddress(tx, ty, 0, 1) : tx \in IndexCoord, ty \in IndexCoord }

\* How many fragments the template under test has at most.
MaxFragments == 2

IndexChunked ==
    { s \in UNION { [1..n -> IndexKeys] : n \in 0..MaxFragments } :
        \A i \in 1..Len(s), j \in 1..Len(s) : i # j => s[i] # s[j] }

\* Object.keys(templateTiles).forEach(k => template.tilePrefixes?.add(...))
PopulateIndex ==
    /\ ~indexed.populated
    /\ indexed' = [indexed EXCEPT
                     !.tilePrefixes = PopulateTilePrefixes(@, indexed.chunked),
                     !.populated = TRUE]
    /\ UNCHANGED << templatesArray, templatesShouldBeDrawn, tileProgress, json, parsed, importRejected,
                    templatesJSON,
                    pass, running, inspected, loopsOver, lastSet, probe >>

\* The two ways isAnyTemplateInTile has of answering for a tile.
Lookup(coords) ==
    /\ probe' = [ tileCoords |-> formatTileCoords(coords),
                  fast |-> IndexLookup(indexed, formatTileCoords(coords)),
                  scan |-> KeyScan(indexed, formatTileCoords(coords)) ]
    /\ UNCHANGED << templatesArray, templatesShouldBeDrawn, tileProgress, json, parsed, importRejected,
                    templatesJSON,
                    pass, running, inspected, loopsOver, lastSet, indexed >>

InitIndex ==
    /\ InitManager
    /\ json = <<>>
    /\ \E chunked \in IndexChunked :
          indexed = [ chunked |-> [i \in 1..Len(chunked) |->
                                      [key |-> chunked[i], bitmap |-> PlainBitmap]],
                      tilePrefixes |-> {}, populated |-> FALSE ]
    /\ probe = NoProbe

NextIndex ==
    \/ PopulateIndex
    \/ \E tx \in IndexCoord, ty \in IndexCoord : Lookup(<<tx, ty>>)

SpecIndex == InitIndex /\ [][NextIndex]_vars

\* The import on its own: a stored template of one or two tiles of every
\* content, some of which do not decode, alone or followed by a second
\* template.
Deface == Pixel(222, 250, 206, 255)

ImportPixels == {ReqA, ReqC, Blank, Deface}

ImportTiles(tx, ty) ==
    { JsonTile(tx, ty, 0, 0, MakeBitmap(centers, ReqA)) :
        centers \in [1..FragmentPixels -> ImportPixels] }
    \cup { [JsonTile(tx, ty, 0, 0, PlainBitmap) EXCEPT !.decodes = FALSE] }

ImportStores ==
    LET firsts == { <<a>> : a \in ImportTiles(0, 1) } \cup
                  { <<a, b>> : a \in ImportTiles(0, 1), b \in ImportTiles(0, 10) }
        second == JsonTemplate(2, << JsonTile(1, 0, 0, 0, PlainBitmap) >>, EmptyObject)
    IN { << JsonTemplate(1, tiles, EmptyObject) >> : tiles \in firsts } \cup
       { << JsonTemplate(1, tiles, EmptyObject), second >> : tiles \in firsts }

InitImport ==
    /\ InitManager
    /\ json \in ImportStores
    /\ indexed = NoIndex
    /\ probe = NoProbe

NextImport == ParseTemplate

SpecImport == InitImport /\ [][NextImport]_vars

\* Templates are created while tiles are diffed: one stored template on
\* tile (0, 1), one color of it disabled, is imported, and createTemplate installs a template on
\* tile (0, 10) or another one on tile (0, 1).
OtherBitmap == MakeBitmap([k \in 1..FragmentPixels |-> ReqC], Clear)

CreatedTiles ==
    { << [key |-> TileAddress(0, 10, 0, 0), bitmap |-> PlainBitmap] >>,
      << [key |-> TileAddress(0, 1, 0, 0), bitmap |-> OtherBitmap] >> }

ResetStores == { << JsonTemplate(1, << JsonTile(0, 1, 0, 0, PlainBitmap) >>, OneDisabled) >> }

ResetCoords == { <<0, 1>>, <<0, 10>> }

InitReset ==
    /\ InitManager
    /\ json \in ResetStores
    /\ indexed = NoIndex
    /\ probe = NoProbe

NextReset ==
    \/ ParseTemplate
    \/ \E templateTiles \in CreatedTiles : CreateTemplate(templateTiles)
    \/ \E p \in Passes, coords \in ResetCoords, tileBlob \in PassTiles :
          StartPass(p, coords, tileBlob)
    \/ \E p \in Passes : PassStep(p)

SpecReset == InitReset /\ [][NextReset]_vars

\* ------------------------------------------------------------------------
\* Properties of the progress aggregator
\* ------------------------------------------------------------------------

\* The sum of field[k] over the keys.
RECURSIVE SumOver(_, _)
SumOver(keys, field) ==
    IF keys = {} THEN 0
    ELSE LET k == CHOOSE q \in keys : TRUE IN
         field[k] + SumOver(keys \ {k}, field)

\* The positions of the addresses of the Map, in the Map's order, each
\* taken from the progress most recently set for the address.
RECURSIVE LatestPositionsFrom(_)
LatestPositionsFrom(i) ==
    IF i > Len(tileProgress) THEN <<>>
    ELSE lastSet[tileProgress[i].key].progress.wrongPixelPositions
         \o LatestPositionsFrom(i + 1)

\* C6: after any sequence of set calls the totals count every address once,
\* with the progress most recently set for it: the Map holds one entry per
\* address ever set, and the three counts and the positions are those of
\* the latest records alone.
C6_LatestRecordCountedOnce ==
    LET totals == computeTotalProgress(tileProgress)
        addresses == DOMAIN lastSet
    IN /\ Len(tileProgress) = Cardinality(addresses)
       /\ MapKeys(tileProgress) = addresses
       /\ totals.totalPixelCount =
             SumOver(addresses,
                     [k \in addresses |-> lastSet[k].progress.totalPixelCount])
       /\ totals.paintedPixelCount =
             SumOver(addresses,
                     [k \in addresses |-> lastSet[k].progress.paintedPixelCount])
       /\ totals.wrongPixelCount =
             SumOver(addresses,
                     [k \in addresses |-> lastSet[k].progress.wrongPixelCount])
       /\ totals.wrongPixelPositions = LatestPositionsFrom(1)

\* An address was recorded again with a progress that differs from the
\* first one, next to another address.
C6_Witness ==
    /\ Len(tileProgress) = 2
    /\ lastSet[tileProgress[1].key].replaced
    /\ tileProgress[1].value.wrongPixelCount = 2
    /\ tileProgress[2].value.wrongPixelCount = 1

\* C7: with two addresses recorded, A first and B second, the totals are
\* the sums of A's and B's counts, the positions are A's followed by B's,
\* and the color totals are the per-key sums.
C7_TotalsOfTwoTiles ==
    Len(tileProgress) = 2 =>
        LET A == tileProgress[1].value
            B == tileProgress[2].value
            totals == computeTotalProgress(tileProgress)
            colors == computeTotalColorsProgress(tileProgress)
            paintedKeys == (DOMAIN A.paintedPixelColorCounts) \cup
                           (DOMAIN B.paintedPixelColorCounts)
            wrongKeys == (DOMAIN A.wrongPixelColorCounts) \cup
                         (DOMAIN B.wrongPixelColorCounts)
        IN /\ totals.totalPixelCount = A.totalPixelCount + B.totalPixelCount
           /\ totals.paintedPixelCount = A.paintedPixelCount + B.paintedPixelCount
           /\ totals.wrongPixelCount = A.wrongPixelCount + B.wrongPixelCount
           /\ totals.wrongPixelPositions = A.wrongPixelPositions \o B.wrongPixelPositions
           /\ DOMAIN colors.paintedPixelColorCounts = paintedKeys
           /\ DOMAIN colors.wrongPixelColorCounts = wrongKeys
           /\ \A k \in paintedKeys :
                 colors.paintedPixelColorCounts[k] =
                     GetOrZero(A.paintedPixelColorCounts, k) +
                     GetOrZero(B.paintedPixelColorCounts, k)
           /\ \A k \in wrongKeys :
                 colors.wrongPixelColorCounts[k] =
                     GetOrZero(A.wrongPixelColorCounts, k) +
                     GetOrZero(B.wrongPixelColorCounts, k)

\* Two addresses, both with wrong pixels and with a color in common.
C7_Witness ==
    /\ Len(tileProgress) = 2
    /\ Len(tileProgress[1].value.wrongPixelPositions) = 2
    /\ Len(tileProgress[2].value.wrongPixelPositions) = 1
    /\ computeTotalColorsProgress(tileProgress).paintedPixelColorCounts[KeyA] = 2

\* ------------------------------------------------------------------------
\* Properties of the tile index
\* ------------------------------------------------------------------------

\* C8: for a template whose tilePrefixes was filled from its chunked keys,
\* the index lookup and the scan of the keys agree on every formatted tile
\* prefix.
C8_IndexAgreesWithScan ==
    indexed.populated =>
        \A tx \in IndexCoord, ty \in IndexCoord :
            IndexLookup(indexed, formatTileCoords(<<tx, ty>>)) =
            KeyScan(indexed, formatTileCoords(<<tx, ty>>))

\* A lookup on a filled index of two fragments found the tile both ways.
C8_Witness ==
    /\ indexed.populated
    /\ Len(indexed.chunked) = 2
    /\ probe.fast
    /\ probe.scan

\* ------------------------------------------------------------------------
\* Properties of the classification loop
\* ------------------------------------------------------------------------

\* Pass p takes one iteration of its classification loops in this step.
ClassifyStepOf(p) ==
    /\ pass[p].pc = "classify"
    /\ pass'[p].n = pass[p].n + 1

\* The pixel (x, y) of a raster w wide, read from its bytes.
RasterPixel(data, w, x, y) ==
    [ red   |-> data[(y * w + x) * 4 + 1],
      green |-> data[(y * w + x) * 4 + 2],
      blue  |-> data[(y * w + x) * 4 + 3],
      alpha |-> data[(y * w + x) * 4 + 4] ]

\* The center of a block of DrawMult * DrawMult pixels.
CenterOffset == (DrawMult - 1) \div 2

IsSampled(x, y) == x % DrawMult = CenterOffset /\ y % DrawMult = CenterOffset

\* The fragment is the one stored for tile (tx, ty) at pixel (px, py).
FragmentIsAt(template, tx, ty, px, py) ==
    /\ template.tileCoords = << PadStart(ToDigits(tx), TileFieldWidth, "0"),
                                PadStart(ToDigits(ty), TileFieldWidth, "0") >>
    /\ template.pixelCoords = << PadStart(ToDigits(px), PixelFieldWidth, "0"),
                                 PadStart(ToDigits(py), PixelFieldWidth, "0") >>

SameRGB(p, q) == <<p.red, p.green, p.blue>> = <<q.red, q.green, q.blue>>

\* The reference rule: the change of <<total, painted, wrong>> for a
\* template pixel `shred` over a tile pixel `ground`.
ReferenceDelta(shred, ground, allowedColorSet) ==
    IF shred.alpha < 64
    THEN IF ground.alpha >= 64 /\ getColorKey(ground) \in allowedColorSet
         THEN <<0, 0, 1>>
         ELSE <<0, 0, 0>>
    ELSE IF ground.alpha >= 64 /\ SameRGB(shred, ground) THEN <<1, 1, 0>>
         ELSE IF ground.alpha >= 64 THEN <<1, 0, 1>>
         ELSE <<1, 0, 0>>

\* What the iteration of pass p in this step is about: the local offset,
\* the template pixel, the place in the tile and the tile pixel there.
StepX(p) == PixelX(pass[p].n, Fragment(p).bitmap.width)
StepY(p) == PixelY(pass[p].n, Fragment(p).bitmap.width)
StepShred(p) ==
    RasterPixel(Fragment(p).bitmap.data, Fragment(p).bitmap.width, StepX(p), StepY(p))
StepGX(p) == StepX(p) + Number(Fragment(p).pixelCoords[1]) * DrawMult
StepGY(p) == StepY(p) + Number(Fragment(p).pixelCoords[2]) * DrawMult
StepInTile(p) ==
    /\ IsSampled(StepX(p), StepY(p))
    /\ StepGX(p) \in 0..(drawSize - 1)
    /\ StepGY(p) \in 0..(drawSize - 1)
StepGround(p) == RasterPixel(pass[p].tilePixelsSnapshot, drawSize, StepGX(p), StepGY(p))

\* C1: every sampled template pixel inside the live tile changes
\* totalPixelCount, paintedPixelCount and wrongPixelCount by the reference
\* rule, and the painted count of the template pixel's color key rises by
\* one exactly when the change is (+1, +1, 0).
C1_CountersFollowReferenceRule ==
    [][ \A p \in Passes :
          (ClassifyStepOf(p) /\ StepInTile(p)) =>
             LET before == pass[p].counters
                 after == pass'[p].counters
                 delta == ReferenceDelta(StepShred(p), StepGround(p),
                                         templatesArray[1].allowedColorsSet)
                 key == getColorKey(StepShred(p))
             IN /\ after.totalPixelCount = before.totalPixelCount + delta[1]
                /\ after.paintedPixelCount = before.paintedPixelCount + delta[2]
                /\ after.wrongPixelCount = before.wrongPixelCount + delta[3]
                /\ GetOrZero(after.paintedPixelColorCounts, key) =
                      GetOrZero(before.paintedPixelColorCounts, key)
                      + (IF delta = <<1, 1, 0>> THEN 1 ELSE 0)
      ]_vars

\* A pass has classified a correct pixel, a required pixel over an
\* unpainted tile pixel, and nothing else.
C1_Witness ==
    \E p \in Passes :
        /\ pass[p].pc = "draw"
        /\ pass[p].counters.totalPixelCount = 2
        /\ pass[p].counters.paintedPixelCount = 1
        /\ pass[p].counters.wrongPixelCount = 0

\* C2: a required template pixel sampled at local offset (x, y) over a
\* tile pixel painted in another color appends exactly one entry to
\* wrongPixelPositions: the fragment's tile, and its pixel offset plus
\* (floor(x / drawMult), floor(y / drawMult)).
C2_WrongPositionIsBackConverted ==
    [][ \A p \in Passes :
          ( /\ ClassifyStepOf(p)
            /\ StepInTile(p)
            /\ StepShred(p).alpha >= 64
            /\ StepGround(p).alpha >= 64
            /\ ~SameRGB(StepShred(p), StepGround(p)) ) =>
             \E tx \in 0..1, ty \in 0..1, px \in 0..(TileSize - 1), py \in 0..(TileSize - 1) :
                /\ FragmentIsAt(Fragment(p), tx, ty, px, py)
                /\ pass'[p].counters.wrongPixelPositions =
                      Append(pass[p].counters.wrongPixelPositions,
                             [ tx |-> tx, ty |-> ty,
                               px |-> px + (StepX(p) \div DrawMult),
                               py |-> py + (StepY(p) \div DrawMult) ])
      ]_vars

\* The second pixel of a fragment at the corner of tile (0, 1) was found
\* wrong: its position is pixel (1, 0) of the tile.
C2_Witness ==
    \E p \in Passes :
        /\ pass[p].counters.totalPixelCount = 2
        /\ pass[p].counters.paintedPixelCount = 1
        /\ pass[p].counters.wrongPixelPositions = << [tx |-> 0, ty |-> 1, px |-> 1, py |-> 0] >>

\* The raster a finished loop ran over: the loops of the import are named
\* by template and tile of the stored JSON, those of a pass by call and
\* fragment.
LoopBitmap(l) ==
    IF l[1] = "import" THEN json[l[2]].tiles[l[3]].bitmap
    ELSE pass[l[2]].templateTileBlobsToDraw[l[3]].bitmap

\* C3: the classification loop, the palette-filter loop and the import
\* counting loop inspect a fragment pixel (x, y) only if x mod drawMult and
\* y mod drawMult are both (drawMult - 1) / 2, and a loop that is over has
\* inspected every such pixel of its fragment.
C3_LoopsInspectExactlyTheCenters ==
    /\ \A e \in inspected : IsSampled(e[4], e[5])
    /\ \A l \in loopsOver :
          \A x \in 0..(LoopBitmap(l).width - 1), y \in 0..(LoopBitmap(l).height - 1) :
              IsSampled(x, y) => <<l[1], l[2], l[3], x, y>> \in inspected

\* ------------------------------------------------------------------------
\* Properties of the palette filter
\* ------------------------------------------------------------------------

\* The palette entry of the bucket of a color key is disabled: the key's
\* own entry for a color of allowedColorSet, the "other" entry (disabled
\* also when absent) for any other color.
BucketDisabled(palette, allowedColorSet, key) ==
    IF key \in allowedColorSet
    THEN HasKey(palette, key) /\ palette[key].enabled = FALSE
    ELSE ~HasKey(palette, Other) \/ palette[Other].enabled = FALSE

\* The alpha the filtered copy is to have at pixel n of the raster.
FilteredAlpha(bitmap, n, palette, allowedColorSet) ==
    LET x == PixelX(n, bitmap.width)
        y == PixelY(n, bitmap.width)
        pixel == RasterPixel(bitmap.data, bitmap.width, x, y)
    IN IF /\ IsSampled(x, y)
          /\ pixel.alpha >= 1
          /\ BucketDisabled(palette, allowedColorSet, getColorKey(pixel))
       THEN 0
       ELSE pixel.alpha

\* C10: when an entry of the active palette is disabled, the filtered copy
\* drawn for a fragment has alpha 0 at a sampled center pixel with
\* alpha >= 1 if and only if the palette entry of the pixel's bucket is
\* disabled, and every other pixel keeps its alpha.
C10_FilterHidesDisabledBuckets ==
    \A p \in Passes :
        \A k \in 1..Len(pass[p].canvas) :
            LET drawn == pass[p].canvas[k] IN
            drawn.what = "filtered" =>
                LET bitmap == pass[p].templateTileBlobsToDraw[drawn.i].bitmap IN
                \A n \in 0..(bitmap.width * bitmap.height - 1) :
                    drawn.data[n * 4 + 4] =
                        FilteredAlpha(bitmap, n, templatesArray[1].colorPalette,
                                      templatesArray[1].allowedColorsSet)

\* ------------------------------------------------------------------------
\* Properties of whole passes
\* ------------------------------------------------------------------------

\* Pass p leaves the loop over its fragments in this step.
SaveStepOf(p) == pass[p].pc = "save" /\ pass'[p].pc = "encode"

\* Every fragment of pass p was drawn onto the canvas.
AllFragmentsDrawn(ps) ==
    \A i \in 1..Len(ps.templateTileBlobsToDraw) :
        \E k \in 1..Len(ps.canvas) : ps.canvas[k].i = i /\ ps.canvas[k].what # "tile"

\* C4: when capturing the snapshot failed, the entry of the tile in the
\* progress aggregator is the same after the pass as before it, and every
\* overlapping fragment was drawn.
C4_FailedCaptureKeepsProgress ==
    [][ \A p \in Passes :
          (SaveStepOf(p) /\ pass[p].tilePixelsSnapshot = NullData) =>
              /\ tileProgress' = tileProgress
              /\ AllFragmentsDrawn(pass[p])
      ]_vars

\* C5: drawTemplateOnTile never ends with a rejected promise.
C5_NoPassRejects == \A p \in Passes : pass[p].result # "rejected"

\* No template has a fragment on the tile at coords.
NoFragmentAt(templates, coords) ==
    \A i \in 1..Len(templates) :
        \A j \in 1..Len(templates[i].chunked) :
            ~StartsWith(templates[i].chunked[j].key, formatTileCoords(coords))

\* C9: a call for a tile on which no loaded template has a fragment finds
\* no relevant fragment, returns the input tile blob itself at once and
\* leaves the progress aggregator as it was.
C9_UntouchedTileIsReturned ==
    [][ \A p \in Passes :
          ( /\ pass[p].pc = "idle"
            /\ pass'[p].pc # "idle"
            /\ NoFragmentAt(templatesArray, pass'[p].coords) ) =>
              /\ getRelevantTemplateTileBlobs(templatesArray',
                                              formatTileCoords(pass'[p].coords)) = <<>>
              /\ pass'[p].pc = "done"
              /\ pass'[p].result = "tileBlob"
              /\ pass'[p].canvas = <<>>
              /\ tileProgress' = tileProgress
      ]_vars

\* With a template loaded and templates drawn, a call for a tile without
\* fragments has returned the tile blob.
C9_Witness ==
    \E p \in Passes :
        /\ Len(templatesArray) > 0
        /\ pass[p].tileCoords = formatTileCoords(<<1, 0>>)
        /\ pass[p].result = "tileBlob"

\* ------------------------------------------------------------------------
\* Independence of the statistics from the palette flags
\* ------------------------------------------------------------------------

\* The templates with every colorPalette emptied: no enabled flag is left.
WithoutPalettes(templates) ==
    [ k \in 1..Len(templates) |-> [templates[k] EXCEPT !.colorPalette = EmptyObject] ]

\* The counters after the classification loops of the fragments from the
\* i-th on, from pixel n of the i-th, starting with counters c.
RECURSIVE ClassifyAllFrom(_, _, _, _, _, _)
ClassifyAllFrom(fragments, i, n, c, snapshot, templates) ==
    IF i > Len(fragments) THEN c
    ELSE LET bitmap == fragments[i].bitmap IN
         IF n >= bitmap.width * bitmap.height
         THEN ClassifyAllFrom(fragments, i + 1, 0, c, snapshot, templates)
         ELSE ClassifyAllFrom(fragments, i, n + 1,
                  ClassifyPixel(c, fragments[i], PixelX(n, bitmap.width),
                                PixelY(n, bitmap.width), bitmap.data, bitmap.width,
                                snapshot, templates),
                  snapshot, templates)

\* Pass p has run the classification loops of all its fragments.
ClassifiedAll(p) ==
    /\ pass[p].tilePixelsSnapshot # NullData
    /\ \A i \in 1..Len(pass[p].templateTileBlobsToDraw) : <<"classify", p, i>> \in loopsOver

Wrote(p) ==
    /\ pass[p].pc \in {"encode", "done"}
    /\ Len(pass[p].templateTileBlobsToDraw) > 0
    /\ AllFragmentsDrawn(pass[p])

\* The counters of pass p computed from its own tile and fragments alone:
\* the fragments from the i-th on whose classification loops ran, over the
\* snapshot of the pass's tile.
RECURSIVE AloneCounters(_, _, _)
AloneCounters(p, i, c) ==
    IF i > Len(pass[p].templateTileBlobsToDraw) THEN c
    ELSE AloneCounters(p, i + 1,
            IF <<"classify", p, i>> \in loopsOver
            THEN ClassifyAllFrom(<<pass[p].templateTileBlobsToDraw[i]>>, 1, 0, c,
                                 SnapshotOf(pass[p].tileBlob), templatesArray)
            ELSE c)

\* The TileProgress pass p records when it runs alone.
AloneRecord(p) == ProgressOf(AloneCounters(p, 1, NewCounters))

\* C12: when two passes on different tile addresses have both written,
\* the aggregator holds one record per address, each the record its pass
\* writes when run alone.
C12_DisjointPassesKeepTheirRecords ==
    \A p \in Passes, q \in Passes :
        (p # q /\ Wrote(p) /\ Wrote(q) /\ pass[p].tileCoords # pass[q].tileCoords) =>
            /\ Len(tileProgress) = 2
            /\ MapKeys(tileProgress) = {pass[p].tileCoords, pass[q].tileCoords}
            /\ MapGet(tileProgress, pass[p].tileCoords) = AloneRecord(p)
            /\ MapGet(tileProgress, pass[q].tileCoords) = AloneRecord(q)

\* Two passes on two tiles have written, the one called second first, and
\* their records differ.
C12_Witness ==
    /\ Wrote(1)
    /\ Wrote(2)
    /\ Len(tileProgress) = 2
    /\ tileProgress[1].key = pass[2].tileCoords
    /\ tileProgress[2].key = pass[1].tileCoords
    /\ tileProgress[1].value.paintedPixelCount = 1
    /\ tileProgress[2].value.paintedPixelCount = 0

\* C13: when two passes on the same tile address have both written, the
\* single record of the address is the whole record of the pass that wrote
\* last, as that pass writes it when run alone.
C13_LastWriteWins ==
    \A p \in Passes, q \in Passes :
        (p # q /\ Wrote(p) /\ Wrote(q) /\ pass[p].tileCoords = pass[q].tileCoords) =>
            /\ Len(tileProgress) = 1
            /\ lastSet[pass[p].tileCoords].by \in {p, q}
            /\ MapGet(tileProgress, pass[p].tileCoords) =
                   AloneRecord(lastSet[pass[p].tileCoords].by)

\* Two passes on one tile have written records that differ, and the call
\* made first wrote last.
C13_Witness ==
    /\ Wrote(1)
    /\ Wrote(2)
    /\ pass[1].tileCoords = pass[2].tileCoords
    /\ lastSet[pass[1].tileCoords].by = 1
    /\ AloneRecord(1) # AloneRecord(2)
    /\ AloneRecord(1).paintedPixelCount = 1

\* ------------------------------------------------------------------------
\* Properties of the import
\* ------------------------------------------------------------------------

\* #parseBlueMarble works on the next stored template in this step.
ImportStep == parsed' # parsed \/ importRejected' # importRejected

\* The tiles of a stored template that decode.
DecodableTiles(tiles) == SelectSeq(tiles, LAMBDA tile : tile.decodes)

\* C14: the import of a stored template skips the tiles that do not decode:
\* the template is appended to templatesArray with its other tiles, and
\* the import goes on with the templates after it.
C14_UndecodableTileIsSkipped ==
    [][ ImportStep =>
          /\ ~importRejected'
          /\ parsed' = parsed + 1
          /\ Len(templatesArray') = Len(templatesArray) + 1
          /\ ChunkedKeys(templatesArray'[Len(templatesArray')].chunked) =
                ChunkedKeys(DecodableTiles(json[parsed + 1].tiles))
      ]_vars

\* How many center pixels of the raster from pixel n on have alpha >= 64
\* and are not the color (222, 250, 206).
RECURSIVE RequiredCentersFrom(_, _)
RequiredCentersFrom(bitmap, n) ==
    IF n >= bitmap.width * bitmap.height THEN 0
    ELSE LET x == PixelX(n, bitmap.width)
             y == PixelY(n, bitmap.width)
             pixel == RasterPixel(bitmap.data, bitmap.width, x, y)
         IN (IF /\ IsSampled(x, y)
                /\ pixel.alpha >= 64
                /\ <<pixel.red, pixel.green, pixel.blue>> # <<222, 250, 206>>
             THEN 1 ELSE 0) + RequiredCentersFrom(bitmap, n + 1)

\* The same over the tile bitmaps of a template from the i-th on.
RECURSIVE RequiredCentersOfTiles(_, _)
RequiredCentersOfTiles(chunked, i) ==
    IF i > Len(chunked) THEN 0
    ELSE RequiredCentersFrom(chunked[i].bitmap, 0) + RequiredCentersOfTiles(chunked, i + 1)

\* The sum of the counts of a colorPalette.
PaletteCountSum(palette) ==
    SumOver(DOMAIN palette, [k \in DOMAIN palette |-> palette[k].count])

\* C17: an imported template's requiredPixelCount is the number of center
\* pixels of its tile bitmaps that have alpha >= 64 and are not
\* (222, 250, 206), and the counts of its colorPalette sum to that number.
C17_RequiredPixelsAreCounted ==
    \A k \in 1..Len(templatesArray) :
        /\ templatesArray[k].requiredPixelCount =
              RequiredCentersOfTiles(templatesArray[k].chunked, 1)
        /\ PaletteCountSum(templatesArray[k].colorPalette) =
              RequiredCentersOfTiles(templatesArray[k].chunked, 1)

\* ------------------------------------------------------------------------
\* The color of a wrong pixel where the template is blank
\* ------------------------------------------------------------------------

\* C15: when a sampled template pixel with alpha < 64 is classified wrong
\* (the snapshot pixel is painted and in allowedColorSet), the wrong color
\* count that rises is the one of the snapshot pixel's color key, not the
\* one of the template pixel's color key.
C15_BlankWrongIsKeyedByGround ==
    [][ \A p \in Passes :
          ( /\ ClassifyStepOf(p)
            /\ StepInTile(p)
            /\ StepShred(p).alpha < 64
            /\ StepGround(p).alpha >= 64
            /\ getColorKey(StepGround(p)) \in templatesArray[1].allowedColorsSet ) =>
              LET groundKey == getColorKey(StepGround(p))
                  shredKey == getColorKey(StepShred(p))
                  before == pass[p].counters.wrongPixelColorCounts
                  after == pass'[p].counters.wrongPixelColorCounts
              IN /\ GetOrZero(after, groundKey) = GetOrZero(before, groundKey) + 1
                 /\ shredKey # groundKey =>
                       GetOrZero(after, shredKey) = GetOrZero(before, shredKey)
      ]_vars

\* ------------------------------------------------------------------------
\* The active template of a pass
\* ------------------------------------------------------------------------

\* The fragment was taken from the tiles of the template.
Owns(template, fragment) ==
    \E j \in 1..Len(template.chunked) :
        /\ Split(template.chunked[j].key) =
              <<fragment.tileCoords[1], fragment.tileCoords[2],
                fragment.pixelCoords[1], fragment.pixelCoords[2]>>
        /\ template.chunked[j].bitmap = fragment.bitmap

\* The template has a fragment on the tile.
Overlaps(template, tileCoords) ==
    \E j \in 1..Len(template.chunked) : StartsWith(template.chunked[j].key, tileCoords)

\* C16: while a pass classifies, filters and draws, this.templatesArray[0]
\* is the template of the first fragment of the pass, the overlapping
\* template with the lowest sortID.
C16_ActiveTemplateOwnsFirstFragment ==
    \A p \in Passes :
        pass[p].pc \in {"classify", "draw", "filter"} =>
            /\ Len(templatesArray) > 0
            /\ Owns(templatesArray[1], pass[p].templateTileBlobsToDraw[1])
            /\ \A k \in 1..Len(templatesArray) :
                  Overlaps(templatesArray[k], pass[p].tileCoords) =>
                      templatesArray[1].sortID <= templatesArray[k].sortID

\* ------------------------------------------------------------------------
\* Passes while the loaded templates change
\* ------------------------------------------------------------------------

\* Pass p has resumed from the decode of the tile and runs the part that
\* reads this.templatesArray: the active template of the classification
\* and of the filter, and the sum of the required counts.
ReadsTemplates(p) ==
    /\ running = p
    /\ pass[p].pc \in {"fragment", "classify", "draw", "filter", "save"}

\* C18: the templates a pass selected its fragments from before the await
\* of the decode are the same templates, in the same order, as
\* this.templatesArray when the pass reads it after the await, under every
\* interleaving with createTemplate, #parseBlueMarble and other passes.
C18_PassSeesOneTemplateSet ==
    \A p \in Passes :
        ReadsTemplates(p) => templatesArray = pass[p].templatesArrayCopy

\* The call whose progress is the record of the tile in the aggregator.
ProducerOf(tileCoords) == lastSet[tileCoords].by

\* Every fragment the pass diffed belongs to a loaded template.
DiffedAgainstLoaded(ps, templates) ==
    \A i \in 1..Len(ps.templateTileBlobsToDraw) :
        \E k \in 1..Len(templates) : Owns(templates[k], ps.templateTileBlobsToDraw[i])

\* C19: once createTemplate has discarded the loaded templates and
\* installed the new one, every record of the progress aggregator was
\* produced by a diff against templates that are loaded now.
C19_ResetLeavesNoStaleRecord ==
    templatesJSON > 0 =>
        \A k \in 1..Len(tileProgress) :
            DiffedAgainstLoaded(pass[ProducerOf(tileProgress[k].key)], templatesArray)

====
